---- MODULE Spec2Model ----
(***************************************************************************)
(* docker-autocompose: generateCompose (src/main.go) as a state machine.   *)
(*                                                                         *)
(* One pass of generateCompose over a container inspection record and the  *)
(* inspection record of its image.  Each block of the function is one      *)
(* action; pc is the position in the function.  Go strings that the code   *)
(* slices, splits, concatenates or prefix-tests are sequences of           *)
(* one-character strings; strings that are only compared are TLA+ strings. *)
(* A Go slice is a record [nil, elems]; a Go map is a function, read with  *)
(* the zero value for a missing key; a Go pointer is a record with a       *)
(* "present" flag.  The resources and network blocks (lines 206-219) and   *)
(* the fields copied unconditionally from the container are not modelled.  *)
(***************************************************************************)
EXTENDS Integers, Sequences, FiniteSets, TLC

VARIABLES containerJSON, imageJSON, pc, service, compose, portsLeft, mountIdx, fetchLog

vars == <<containerJSON, imageJSON, pc, service, compose, portsLeft, mountIdx, fetchLog>>

(***************************************************************************)
(* Bounds of the input sets.                                               *)
(***************************************************************************)
MaxEnv == 2
MaxBind == 2
MaxMounts == 2
MaxArgs == 2
MaxDur == 1
MaxRetries == 1

SeqUpTo(S, n) == UNION {[1..k -> S] : k \in 0..n}

(***************************************************************************)
(* Go values.                                                              *)
(***************************************************************************)
EmptyStr == <<>>

NilSlice == [nil |-> TRUE, elems |-> <<>>]

MkSlice(s) == [nil |-> FALSE, elems |-> s]

EmptyMap == [k \in {} |-> EmptyStr]

\* m[k] of a Go map: the zero value "" when k is not a key.
MapGet(m, k) == IF k \in DOMAIN m THEN m[k] ELSE EmptyStr

\* m[k] = v
MapSet(m, k, v) == [x \in (DOMAIN m) \cup {k} |-> IF x = k THEN v ELSE m[x]]

\* strings.HasPrefix(s, prefix)
HasPrefix(s, prefix) ==
    /\ Len(s) >= Len(prefix)
    /\ SubSeq(s, 1, Len(prefix)) = prefix

\* s[from:] with a 0-based start, for from <= len(s)
SliceFrom(s, from) == SubSeq(s, from + 1, Len(s))

\* s[:to], for to <= len(s)
SliceTo(s, to) == SubSeq(s, 1, to)

NoHealthcheck ==
    [present |-> FALSE, Test |-> NilSlice, Interval |-> 0, Timeout |-> 0,
     Retries |-> 0, StartPeriod |-> 0]

(***************************************************************************)
(* Literals of the code.                                                   *)
(***************************************************************************)
ComposeLabelPrefix ==
    <<"c","o","m",".","d","o","c","k","e","r",".","c","o","m","p","o","s","e">>

ComposeVolumePrefix == ComposeLabelPrefix \o <<".">>

AllInterfaces == <<"0",".","0",".","0",".","0">>

HostnameIDLen == 12

(***************************************************************************)
(* Helper functions of main.go.                                            *)
(***************************************************************************)
stringParts(s, sep) ==
    LET hits == {i \in 1..Len(s) : s[i] = sep}
    IN IF hits = {}
         THEN <<s>>
         ELSE LET idx == CHOOSE i \in hits : \A j \in hits : i <= j
              IN <<SubSeq(s, 1, idx - 1), SubSeq(s, idx + 1, Len(s))>>

RECURSIVE parseEnvUpTo(_, _)
parseEnvUpTo(envVars, n) ==
    IF n = 0
      THEN EmptyMap
      ELSE LET envMap == parseEnvUpTo(envVars, n - 1)
               parts == stringParts(envVars[n], "=")
           IN IF Len(parts) = 2 THEN MapSet(envMap, parts[1], parts[2]) ELSE envMap

parseEnv(envVars) == parseEnvUpTo(envVars, Len(envVars))

strSlicesEqual(a, b) ==
    /\ Len(a.elems) = Len(b.elems)
    /\ \A i \in 1..Len(a.elems) : a.elems[i] = b.elems[i]

healthchecksEqualNoStartPeriod(a, b) ==
    IF \/ Len(a.Test.elems) # Len(b.Test.elems)
       \/ a.Interval # b.Interval
       \/ a.Timeout # b.Timeout
       \/ a.Retries # b.Retries
      THEN FALSE
      ELSE \A i \in 1..Len(a.Test.elems) : a.Test.elems[i] = b.Test.elems[i]

healthchecksEqual(a, b) ==
    IF \/ Len(a.Test.elems) # Len(b.Test.elems)
       \/ a.Interval # b.Interval
       \/ a.Timeout # b.Timeout
       \/ a.Retries # b.Retries
       \/ a.StartPeriod # b.StartPeriod
      THEN FALSE
      ELSE \A i \in 1..Len(a.Test.elems) : a.Test.elems[i] = b.Test.elems[i]

isComposeVolumeLabelPrefix(volumeInspect) ==
    \E key \in DOMAIN volumeInspect.Labels : HasPrefix(key, ComposeLabelPrefix)

isComposeVolume(volumeInspect) ==
    \E key \in DOMAIN volumeInspect.Labels : HasPrefix(key, ComposeVolumePrefix)

\* The outcomes of isRandomHostname: "true", "false", or "panic" when
\* containerID[:12] is evaluated on an identity shorter than 12 characters.
isRandomHostname(hostname, containerID) ==
    IF Len(hostname) # HostnameIDLen THEN "false"
    ELSE IF containerID = EmptyStr THEN "false"
    ELSE IF containerID = hostname THEN "false"
    ELSE IF Len(containerID) < HostnameIDLen THEN "panic"
    ELSE IF SliceTo(containerID, HostnameIDLen) = hostname THEN "true"
    ELSE "false"

(***************************************************************************)
(* The blocks of generateCompose.                                          *)
(***************************************************************************)
ZeroService ==
    [ContainerName |-> EmptyStr, Ports |-> <<>>, Volumes |-> <<>>,
     Environment |-> EmptyMap, Healthcheck |-> NoHealthcheck,
     Cmd |-> NilSlice, Entrypoint |-> NilSlice, Labels |-> EmptyMap,
     Hostname |-> EmptyStr, WorkingDir |-> ""]

portMappingAlwaysHostIP(p, binding) ==
    LET base == IF binding.HostIP # EmptyStr
                  THEN binding.HostIP \o <<":">> \o binding.HostPort \o <<":">> \o p.Port
                  ELSE binding.HostPort \o <<":">> \o p.Port
    IN IF p.Proto = "udp" THEN base \o <<"/","u","d","p">> ELSE base

\* One port string of the inner loop body, lines 169-175.
portMapping(p, binding) ==
    LET base == IF binding.HostIP # EmptyStr /\ binding.HostIP # AllInterfaces
                  THEN binding.HostIP \o <<":">> \o binding.HostPort \o <<":">> \o p.Port
                  ELSE binding.HostPort \o <<":">> \o p.Port
    IN IF p.Proto = "udp" THEN base \o <<"/","u","d","p">> ELSE base

\* The ComposeVolume stored for a named volume, lines 187-190.
composeVolume(name, err, volumeInspect) ==
    [Name |-> name, External |-> (err \/ ~isComposeVolume(volumeInspect))]

\* The loop of lines 200-204 over the parsed container environment.
environmentDiff(containerEnv, imageEnv) ==
    [key \in {k \in DOMAIN containerEnv : MapGet(imageEnv, k) # containerEnv[k]}
        |-> containerEnv[key]]

\* The loop of lines 235-239 over the container labels.
labelDiff(containerLabels, imageLabels) ==
    [key \in {k \in DOMAIN containerLabels :
                 /\ MapGet(imageLabels, k) # containerLabels[k]
                 /\ ~HasPrefix(k, ComposeLabelPrefix)}
        |-> containerLabels[key]]

\* Lines 222-232: the healthcheck pointer of the service.
healthcheckDiff(containerHC, imageHC) ==
    IF containerHC.present
       /\ (~imageHC.present \/ ~healthchecksEqual(containerHC, imageHC))
      THEN [present |-> TRUE, Test |-> containerHC.Test,
            Interval |-> containerHC.Interval, Timeout |-> containerHC.Timeout,
            Retries |-> containerHC.Retries, StartPeriod |-> containerHC.StartPeriod]
      ELSE NoHealthcheck

\* Lines 242-249: the slice left in service.Entrypoint / service.Cmd.
sliceDiff(containerSlice, imageSlice) ==
    IF ~strSlicesEqual(containerSlice, imageSlice) THEN containerSlice ELSE NilSlice

workingDirAlways(containerDir, imageDir) == containerDir

\* Lines 252-254.
workingDirDiff(containerDir, imageDir) ==
    IF containerDir # imageDir THEN containerDir ELSE ""

\* The results cli.VolumeInspect can give: an error with the zero Volume, or
\* a volume with its labels.
VolumeLabelSets ==
    { EmptyMap,
      (<<"a","p","p">> :> <<"1">>),
      (ComposeLabelPrefix :> <<"1">>),
      ((ComposeVolumePrefix \o <<"v">>) :> <<"1">>) }

VolumeInspectResults ==
    {[err |-> TRUE, volume |-> [Labels |-> EmptyMap]]}
      \cup {[err |-> FALSE, volume |-> [Labels |-> l]] : l \in VolumeLabelSets}

\* Lines 133-165; containerJSON.Name[1:] panics on an empty name.
Construct ==
    /\ pc = "start"
    /\ IF Len(containerJSON.Name) < 1
         THEN /\ pc' = "panic"
              /\ UNCHANGED <<service, portsLeft>>
         ELSE /\ service' = [ZeroService EXCEPT
                               !.ContainerName = SliceFrom(containerJSON.Name, 1)]
              /\ portsLeft' = DOMAIN containerJSON.PortBindings
              /\ pc' = "ports"
    /\ UNCHANGED <<containerJSON, imageJSON, compose, mountIdx, fetchLog>>

\* Lines 167-178, one iteration of the outer loop; a Go map is ranged over in
\* an unspecified order.
PortStep ==
    /\ pc = "ports"
    /\ \E p \in portsLeft :
         LET bindings == containerJSON.PortBindings[p]
         IN /\ service' = [service EXCEPT !.Ports =
                             @ \o [i \in 1..Len(bindings) |-> portMapping(p, bindings[i])]]
            /\ portsLeft' = portsLeft \ {p}
    /\ UNCHANGED <<containerJSON, imageJSON, pc, compose, mountIdx, fetchLog>>

PortsDone ==
    /\ pc = "ports"
    /\ portsLeft = {}
    /\ pc' = "mounts"
    /\ mountIdx' = 1
    /\ UNCHANGED <<containerJSON, imageJSON, service, compose, portsLeft, fetchLog>>

\* Lines 181-195, one iteration; a named volume is inspected through the client.
MountStep ==
    /\ pc = "mounts"
    /\ mountIdx <= Len(containerJSON.Mounts)
    /\ LET mount == containerJSON.Mounts[mountIdx]
           volumeMapping == mount.Source \o <<":">> \o mount.Destination
       IN IF mount.Type = "volume"
            THEN \E r \in VolumeInspectResults :
                   /\ service' = [service EXCEPT !.Volumes =
                                    Append(@, mount.Name \o <<":">> \o mount.Destination)]
                   /\ fetchLog' = Append(fetchLog,
                                    [name |-> mount.Name, err |-> r.err,
                                     labels |-> r.volume.Labels])
                   /\ compose' = [compose EXCEPT !.Volumes =
                                    MapSet(@, mount.Name,
                                           composeVolume(mount.Name, r.err, r.volume))]
            ELSE IF mount.Type = "bind"
              THEN /\ service' = [service EXCEPT !.Volumes = Append(@, volumeMapping)]
                   /\ UNCHANGED <<compose, fetchLog>>
              ELSE UNCHANGED <<service, compose, fetchLog>>
    /\ mountIdx' = mountIdx + 1
    /\ UNCHANGED <<containerJSON, imageJSON, pc, portsLeft>>

MountsDone ==
    /\ pc = "mounts"
    /\ mountIdx > Len(containerJSON.Mounts)
    /\ pc' = "env"
    /\ UNCHANGED <<containerJSON, imageJSON, service, compose, portsLeft, mountIdx, fetchLog>>

\* Lines 197-204.
EnvStep ==
    /\ pc = "env"
    /\ service' = [service EXCEPT !.Environment =
                     environmentDiff(parseEnv(containerJSON.Env), parseEnv(imageJSON.Env))]
    /\ pc' = "healthcheck"
    /\ UNCHANGED <<containerJSON, imageJSON, compose, portsLeft, mountIdx, fetchLog>>

\* Lines 221-232.
HealthcheckStep ==
    /\ pc = "healthcheck"
    /\ service' = [service EXCEPT !.Healthcheck =
                     healthcheckDiff(containerJSON.Healthcheck, imageJSON.Healthcheck)]
    /\ pc' = "labels"
    /\ UNCHANGED <<containerJSON, imageJSON, compose, portsLeft, mountIdx, fetchLog>>

\* Lines 234-239.
LabelStep ==
    /\ pc = "labels"
    /\ service' = [service EXCEPT !.Labels =
                     labelDiff(containerJSON.Labels, imageJSON.Labels)]
    /\ pc' = "entrypoint"
    /\ UNCHANGED <<containerJSON, imageJSON, compose, portsLeft, mountIdx, fetchLog>>

\* Lines 241-244.
EntrypointStep ==
    /\ pc = "entrypoint"
    /\ service' = [service EXCEPT !.Entrypoint =
                     sliceDiff(containerJSON.Entrypoint, imageJSON.Entrypoint)]
    /\ pc' = "cmd"
    /\ UNCHANGED <<containerJSON, imageJSON, compose, portsLeft, mountIdx, fetchLog>>

\* Lines 246-249.
CmdStep ==
    /\ pc = "cmd"
    /\ service' = [service EXCEPT !.Cmd = sliceDiff(containerJSON.Cmd, imageJSON.Cmd)]
    /\ pc' = "workingdir"
    /\ UNCHANGED <<containerJSON, imageJSON, compose, portsLeft, mountIdx, fetchLog>>

\* Lines 251-254.
WorkingDirStep ==
    /\ pc = "workingdir"
    /\ service' = [service EXCEPT !.WorkingDir =
                     workingDirDiff(containerJSON.WorkingDir, imageJSON.WorkingDir)]
    /\ pc' = "hostname"
    /\ UNCHANGED <<containerJSON, imageJSON, compose, portsLeft, mountIdx, fetchLog>>

\* Lines 256-259; isRandomHostname is only called for a non-empty hostname.
HostnameStep ==
    /\ pc = "hostname"
    /\ LET random == IF containerJSON.Hostname # EmptyStr
                       THEN isRandomHostname(containerJSON.Hostname, containerJSON.ID)
                       ELSE "skipped"
       IN IF random = "panic"
            THEN /\ pc' = "panic"
                 /\ UNCHANGED service
            ELSE /\ service' = IF random = "false"
                                 THEN [service EXCEPT !.Hostname = containerJSON.Hostname]
                                 ELSE service
                 /\ pc' = "return"
    /\ UNCHANGED <<containerJSON, imageJSON, compose, portsLeft, mountIdx, fetchLog>>

\* Lines 261-262.
Return ==
    /\ pc = "return"
    /\ compose' = [compose EXCEPT !.Services =
                     MapSet(@, SliceFrom(containerJSON.Name, 1), service)]
    /\ pc' = "done"
    /\ UNCHANGED <<containerJSON, imageJSON, service, portsLeft, mountIdx, fetchLog>>

Next ==
    \/ Construct
    \/ PortStep
    \/ PortsDone
    \/ MountStep
    \/ MountsDone
    \/ EnvStep
    \/ HealthcheckStep
    \/ LabelStep
    \/ EntrypointStep
    \/ CmdStep
    \/ WorkingDirStep
    \/ HostnameStep
    \/ Return

(***************************************************************************)
(* The inspection records generateCompose is run on.  Each family varies   *)
(* one aspect of the records over a bounded set and keeps the rest at the  *)
(* default records.                                                        *)
(***************************************************************************)
IdA == [i \in 1..HostnameIDLen |-> "a"]

IdB == [i \in 1..HostnameIDLen |-> "b"]

KeyApp == <<"a","p","p">>

KeyProject == ComposeLabelPrefix \o <<".","p">>

KeyComposer == ComposeLabelPrefix \o <<"r">>

PortTcp == [Port |-> <<"8","0">>, Proto |-> "tcp"]

PortUdp == [Port |-> <<"8","0">>, Proto |-> "udp"]

DefaultContainer ==
    [ID |-> IdA \o <<"b","c">>,
     Name |-> <<"/","w">>,
     Hostname |-> <<"h">>,
     Env |-> << <<"A","=","1">> >>,
     Labels |-> (KeyApp :> <<"1">>),
     Cmd |-> MkSlice(<<"a">>),
     Entrypoint |-> NilSlice,
     WorkingDir |-> "/app",
     Healthcheck |-> NoHealthcheck,
     PortBindings |-> (PortTcp :> << [HostIP |-> EmptyStr, HostPort |-> <<"8">>] >>),
     Mounts |-> << [Type |-> "bind", Name |-> EmptyStr,
                    Source |-> <<"/","h">>, Destination |-> <<"/","c">>] >>]

DefaultImage ==
    [Env |-> <<>>,
     Labels |-> EmptyMap,
     Cmd |-> MkSlice(<<"a">>),
     Entrypoint |-> NilSlice,
     WorkingDir |-> "",
     Healthcheck |-> NoHealthcheck]

EnvEntries ==
    { <<"A","=","1">>, <<"A","=","2">>, <<"A","=">>, <<"B","=","1","=">>, <<"A">> }

EnvLists == SeqUpTo(EnvEntries, MaxEnv)

LabelKeys == {KeyApp, KeyProject, KeyComposer}

LabelValues == {EmptyStr, <<"1">>}

LabelMaps == UNION {[ks -> LabelValues] : ks \in SUBSET LabelKeys}

Slices == {NilSlice} \cup {MkSlice(s) : s \in SeqUpTo({"a", "b"}, MaxArgs)}

TestSlices == {NilSlice, MkSlice(<<>>), MkSlice(<<"a">>), MkSlice(<<"a", "b">>), MkSlice(<<"b", "a">>)}

Healthchecks ==
    {NoHealthcheck} \cup
    [present : {TRUE}, Test : {NilSlice, MkSlice(<<"a">>)}, Interval : 0..MaxDur,
     Timeout : 0..MaxDur, Retries : 0..MaxRetries, StartPeriod : 0..MaxDur]
    \cup
    [present : {TRUE}, Test : TestSlices, Interval : {0}, Timeout : {0},
     Retries : {0}, StartPeriod : {0}]

WorkingDirs == {"", "/app", "/srv"}

Bindings ==
    { [HostIP |-> EmptyStr, HostPort |-> <<"8">>],
      [HostIP |-> AllInterfaces, HostPort |-> <<"8">>],
      [HostIP |-> <<"1",".","2",".","3",".","4">>, HostPort |-> <<"9">>] }

BindingLists == SeqUpTo(Bindings, MaxBind)

PortTables == UNION {[ps -> BindingLists] : ps \in SUBSET {PortTcp, PortUdp}}

MountSet ==
    { [Type |-> "volume", Name |-> <<"v">>, Source |-> <<"/","d","v">>, Destination |-> <<"/","a">>],
      [Type |-> "volume", Name |-> <<"v">>, Source |-> <<"/","d","v">>, Destination |-> <<"/","b">>],
      [Type |-> "volume", Name |-> <<"w">>, Source |-> <<"/","d","w">>, Destination |-> <<"/","a">>],
      [Type |-> "bind", Name |-> EmptyStr, Source |-> <<"/","h">>, Destination |-> <<"/","c">>],
      [Type |-> "tmpfs", Name |-> EmptyStr, Source |-> EmptyStr, Destination |-> <<"/","t">>] }

MountLists == SeqUpTo(MountSet, MaxMounts)

Names == {EmptyStr, <<"/">>, <<"/","w">>, <<"w">>}

IDs == {EmptyStr, <<"a","b","c">>, IdA, IdA \o <<"b","c">>, IdB \o <<"a">>}

Hostnames == {EmptyStr, <<"h">>, IdA, IdB, IdA \o <<"b","c">>}

Inputs(c, i) == containerJSON = c /\ imageJSON = i

EnvScenarios ==
    \E ce \in EnvLists, ie \in EnvLists :
        Inputs([DefaultContainer EXCEPT !.Env = ce], [DefaultImage EXCEPT !.Env = ie])

LabelScenarios ==
    \E cl \in LabelMaps, il \in LabelMaps :
        Inputs([DefaultContainer EXCEPT !.Labels = cl], [DefaultImage EXCEPT !.Labels = il])

CmdScenarios ==
    \E cc \in Slices, ic \in Slices :
        Inputs([DefaultContainer EXCEPT !.Cmd = cc], [DefaultImage EXCEPT !.Cmd = ic])

EntrypointScenarios ==
    \E ce \in Slices, ie \in Slices :
        Inputs([DefaultContainer EXCEPT !.Entrypoint = ce],
               [DefaultImage EXCEPT !.Entrypoint = ie])

WorkingDirScenarios ==
    \E cw \in WorkingDirs, iw \in WorkingDirs :
        Inputs([DefaultContainer EXCEPT !.WorkingDir = cw],
               [DefaultImage EXCEPT !.WorkingDir = iw])

HealthcheckScenarios ==
    \E ch \in Healthchecks, ih \in Healthchecks :
        Inputs([DefaultContainer EXCEPT !.Healthcheck = ch],
               [DefaultImage EXCEPT !.Healthcheck = ih])

PortScenarios ==
    \E pb \in PortTables :
        Inputs([DefaultContainer EXCEPT !.PortBindings = pb], DefaultImage)

MountScenarios ==
    \E ms \in MountLists :
        Inputs([DefaultContainer EXCEPT !.Mounts = ms], DefaultImage)

IdentityScenarios ==
    \E n \in Names, id \in IDs, h \in Hostnames :
        Inputs([DefaultContainer EXCEPT !.Name = n, !.ID = id, !.Hostname = h],
               DefaultImage)

Init ==
    /\ \/ EnvScenarios
       \/ LabelScenarios
       \/ CmdScenarios
       \/ EntrypointScenarios
       \/ WorkingDirScenarios
       \/ HealthcheckScenarios
       \/ PortScenarios
       \/ MountScenarios
       \/ IdentityScenarios
    /\ pc = "start"
    /\ service = ZeroService
    /\ compose = [Services |-> EmptyMap, Volumes |-> EmptyMap]
    /\ portsLeft = {}
    /\ mountIdx = 1
    /\ fetchLog = <<>>

Spec == Init /\ [][Next]_vars

(***************************************************************************)
(* Properties of the returned compose file.                                *)
(***************************************************************************)
Returned == pc = "done"

\* The service descriptor stored in the returned compose file.
Descriptor == compose.Services[SliceFrom(containerJSON.Name, 1)]

ContainerEnvMap == parseEnv(containerJSON.Env)

ImageEnvMap == parseEnv(imageJSON.Env)

\* k is a key of container map cm whose value differs from the image map's
\* value, an image map without k counting as differing.
Differs(cm, im, k) == k \in DOMAIN cm /\ (k \notin DOMAIN im \/ im[k] # cm[k])

\* C1: once generateCompose has returned, the service's environment mapping
\* holds key k iff k is in the parsed container environment and its value
\* differs from the parsed image environment's value for k (an image without
\* k counts as differing, also for the empty container value), and the
\* emitted value is the container's.
C1_EnvironmentDiff ==
    Returned =>
      /\ DOMAIN Descriptor.Environment =
           {k \in DOMAIN ContainerEnvMap : Differs(ContainerEnvMap, ImageEnvMap, k)}
      /\ \A k \in DOMAIN Descriptor.Environment :
           Descriptor.Environment[k] = ContainerEnvMap[k]

\* C2: once generateCompose has returned, the service's labels hold key k iff
\* k is a container label whose value differs from the image's value for k (an
\* image without k counts as differing, also for the empty container value)
\* and k does not start with the reserved management prefix; the emitted value
\* is the container's.
C2_LabelDiff ==
    Returned =>
      /\ DOMAIN Descriptor.Labels =
           {k \in DOMAIN containerJSON.Labels :
               /\ Differs(containerJSON.Labels, imageJSON.Labels, k)
               /\ ~HasPrefix(k, ComposeLabelPrefix)}
      /\ \A k \in DOMAIN Descriptor.Labels :
           Descriptor.Labels[k] = containerJSON.Labels[k]

VolumeMountIdx == {i \in 1..Len(containerJSON.Mounts) : containerJSON.Mounts[i].Type = "volume"}

FetchesOf(name) == {i \in 1..Len(fetchLog) : fetchLog[i].name = name}

\* The fetch whose result the volume descriptor of `name` was written from.
LastFetchOf(name) ==
    fetchLog[CHOOSE i \in FetchesOf(name) : \A j \in FetchesOf(name) : j <= i]

CarriesManagementPrefix(labels) ==
    \E k \in DOMAIN labels : HasPrefix(k, ComposeVolumePrefix)

RECURSIVE VolumeStrings(_, _)
VolumeStrings(mounts, n) ==
    IF n = 0 THEN <<>>
    ELSE LET m == mounts[n]
             rest == VolumeStrings(mounts, n - 1)
         IN IF m.Type = "volume" THEN Append(rest, m.Name \o <<":">> \o m.Destination)
            ELSE IF m.Type = "bind" THEN Append(rest, m.Source \o <<":">> \o m.Destination)
            ELSE rest

\* The only ways a pass aborts: the empty container name, or a 12-character
\* hostname with a non-empty identity shorter than 12 characters.
IdentityAbort ==
    \/ containerJSON.Name = EmptyStr
    \/ /\ Len(containerJSON.Hostname) = HostnameIDLen
       /\ containerJSON.ID # EmptyStr
       /\ Len(containerJSON.ID) < HostnameIDLen

C3_Descriptors ==
    /\ pc = "panic" => IdentityAbort
    /\ pc \notin {"done", "panic"} => ENABLED Next
    /\ Returned =>
         /\ \A i \in VolumeMountIdx :
              LET name == containerJSON.Mounts[i].Name
              IN /\ name \in DOMAIN compose.Volumes
                 /\ compose.Volumes[name].Name = name
                 /\ compose.Volumes[name].External =
                      (LastFetchOf(name).err
                         \/ ~CarriesManagementPrefix(LastFetchOf(name).labels))
         /\ Descriptor.Volumes =
              VolumeStrings(containerJSON.Mounts, Len(containerJSON.Mounts))

C3_FetchStep ==
    (pc = "mounts" /\ Len(fetchLog') > Len(fetchLog)) =>
       LET f == fetchLog'[Len(fetchLog')]
           mount == containerJSON.Mounts[mountIdx]
       IN /\ pc' = "mounts"
          /\ mount.Type = "volume"
          /\ f.name = mount.Name
          /\ compose'.Volumes[f.name].External =
               (f.err \/ ~CarriesManagementPrefix(f.labels))
          /\ service' = [service EXCEPT !.Volumes =
                           Append(@, mount.Name \o <<":">> \o mount.Destination)]

\* C3: every named-volume mount has, once generateCompose has returned, a
\* volume descriptor keyed by the volume's name whose external flag is true
\* iff the fetch it was written from failed or the fetched labels hold no key
\* with the management prefix; a failed fetch aborts nothing (the pass goes on
\* and only the identity fields can abort it), and a fetch step changes the
\* service descriptor by the volume string alone, whatever the fetch gave.
C3_VolumeProvenance == [](C3_Descriptors) /\ [][C3_FetchStep]_vars

C3_Witness ==
    /\ Returned
    /\ Len(fetchLog) = 2
    /\ fetchLog[1].name # fetchLog[2].name
    /\ fetchLog[1].err
    /\ ~fetchLog[2].err
    /\ CarriesManagementPrefix(fetchLog[2].labels)
    /\ compose.Volumes[fetchLog[1].name].External
    /\ ~compose.Volumes[fetchLog[2].name].External

\* C4: generateCompose never aborts: for every container and image record
\* the pass runs to completion.
C4_Totality == pc # "panic"

Min(a, b) == IF a < b THEN a ELSE b

\* The classification rule of the hostname heuristic, as stated.
AutoGenerated(hostname, id) ==
    /\ Len(hostname) = HostnameIDLen
    /\ hostname = SubSeq(id, 1, Min(HostnameIDLen, Len(id)))
    /\ hostname # id

\* C5: for a container with a name, the pass ends with the hostname emitted
\* unchanged iff it is non-empty and not auto-generated (length 12, equal to
\* the first 12 characters of the identity, not equal to the identity), and
\* with no hostname otherwise.
C5_HostnameHeuristic ==
    (containerJSON.Name # EmptyStr /\ pc \in {"done", "panic"}) =>
       /\ pc = "done"
       /\ Descriptor.Hostname =
            IF containerJSON.Hostname # EmptyStr
               /\ ~AutoGenerated(containerJSON.Hostname, containerJSON.ID)
              THEN containerJSON.Hostname
              ELSE EmptyStr

\* The field holding slice `emitted` is present with the container's list iff
\* the container's list is not identical to the image's, and absent otherwise.
ListDiffOk(emitted, containerSlice, imageSlice) ==
    /\ (~emitted.nil) = (containerSlice.elems # imageSlice.elems)
    /\ ~emitted.nil => emitted.elems = containerSlice.elems
    /\ emitted.nil => emitted.elems = <<>>

\* C6: once generateCompose has returned, each of command and entrypoint is
\* present, equal to the container's list element for element, iff the
\* container's list is not identical to the image's list (also when the
\* container's list is empty and the image's is not), and absent otherwise.
C6_CommandEntrypointDiff ==
    Returned =>
      /\ ListDiffOk(Descriptor.Cmd, containerJSON.Cmd, imageJSON.Cmd)
      /\ ListDiffOk(Descriptor.Entrypoint, containerJSON.Entrypoint, imageJSON.Entrypoint)

HealthchecksSame(a, b) ==
    /\ a.Test.elems = b.Test.elems
    /\ a.Interval = b.Interval
    /\ a.Timeout = b.Timeout
    /\ a.Retries = b.Retries
    /\ a.StartPeriod = b.StartPeriod

\* C7: once generateCompose has returned, the service has a healthcheck iff
\* the container has one and the image has none or one that differs in the
\* test list, interval, timeout, retries or start period; an emitted
\* healthcheck carries the container's five components.
C7_HealthcheckDiff ==
    Returned =>
      LET c == containerJSON.Healthcheck
          i == imageJSON.Healthcheck
          h == Descriptor.Healthcheck
      IN /\ h.present = (c.present /\ (~i.present \/ ~HealthchecksSame(c, i)))
         /\ h.present => /\ h.Test = c.Test
                         /\ HealthchecksSame(h, c)

C7_Witness ==
    /\ Returned
    /\ containerJSON.Healthcheck.present
    /\ imageJSON.Healthcheck.present
    /\ containerJSON.Healthcheck.Test.elems = imageJSON.Healthcheck.Test.elems
    /\ containerJSON.Healthcheck.Test.elems # <<>>
    /\ containerJSON.Healthcheck.Interval = imageJSON.Healthcheck.Interval
    /\ containerJSON.Healthcheck.Timeout = imageJSON.Healthcheck.Timeout
    /\ containerJSON.Healthcheck.Retries = imageJSON.Healthcheck.Retries
    /\ containerJSON.Healthcheck.StartPeriod # imageJSON.Healthcheck.StartPeriod
    /\ Descriptor.Healthcheck.present
    /\ Descriptor.Healthcheck.StartPeriod = containerJSON.Healthcheck.StartPeriod

\* C8: once generateCompose has returned, no field with an image counterpart
\* is emitted when the container's value equals the image's value: no such
\* environment key, label key, command, entrypoint, working directory or
\* healthcheck is in the service descriptor.
C8_RoundTripMinimality ==
    Returned =>
      /\ \A k \in DOMAIN ContainerEnvMap \cap DOMAIN ImageEnvMap :
           ContainerEnvMap[k] = ImageEnvMap[k] => k \notin DOMAIN Descriptor.Environment
      /\ \A k \in DOMAIN containerJSON.Labels \cap DOMAIN imageJSON.Labels :
           containerJSON.Labels[k] = imageJSON.Labels[k] => k \notin DOMAIN Descriptor.Labels
      /\ containerJSON.Cmd.elems = imageJSON.Cmd.elems => Descriptor.Cmd = NilSlice
      /\ containerJSON.Entrypoint.elems = imageJSON.Entrypoint.elems
           => Descriptor.Entrypoint = NilSlice
      /\ containerJSON.WorkingDir = imageJSON.WorkingDir => Descriptor.WorkingDir = ""
      /\ ( /\ containerJSON.Healthcheck.present = imageJSON.Healthcheck.present
           /\ HealthchecksSame(containerJSON.Healthcheck, imageJSON.Healthcheck) )
           => ~Descriptor.Healthcheck.present

C8_Witness ==
    /\ Returned
    /\ containerJSON.WorkingDir = imageJSON.WorkingDir
    /\ containerJSON.WorkingDir # ""
    /\ Descriptor.WorkingDir = ""
    /\ containerJSON.Cmd.elems = imageJSON.Cmd.elems
    /\ containerJSON.Cmd.elems # <<>>
    /\ Descriptor.Cmd.nil

\* The port string of one host binding, as stated.
PortString(p, b) ==
    LET host == IF b.HostIP = EmptyStr \/ b.HostIP = AllInterfaces
                  THEN b.HostPort
                  ELSE b.HostIP \o <<":">> \o b.HostPort
        suffix == IF p.Proto = "udp" THEN <<"/","u","d","p">> ELSE <<>>
    IN host \o <<":">> \o p.Port \o suffix

BindingSlots ==
    UNION {{<<p, j>> : j \in 1..Len(containerJSON.PortBindings[p])} :
             p \in DOMAIN containerJSON.PortBindings}

\* C9: once generateCompose has returned, the service's port list holds one
\* string per host binding of the port-binding table, no more and no fewer
\* (no deduplication, nothing for an entry without bindings), each string being
\* the binding's port string.
C9_PortBindings ==
    Returned =>
      /\ Len(Descriptor.Ports) = Cardinality(BindingSlots)
      /\ \A x \in BindingSlots :
           LET str == PortString(x[1], containerJSON.PortBindings[x[1]][x[2]])
           IN Cardinality({i \in 1..Len(Descriptor.Ports) : Descriptor.Ports[i] = str})
                = Cardinality({y \in BindingSlots :
                     PortString(y[1], containerJSON.PortBindings[y[1]][y[2]]) = str})

C9_Witness ==
    /\ Returned
    /\ Len(Descriptor.Ports) = 4
    /\ \E i, j \in 1..4 : i # j /\ Descriptor.Ports[i] = Descriptor.Ports[j]
    /\ \E i \in 1..4 : Descriptor.Ports[i] = <<"1",".","2",".","3",".","4",":","9",":","8","0","/","u","d","p">>
    /\ \E i \in 1..4 : Descriptor.Ports[i] = <<"8",":","8","0">>

\* C10: once generateCompose has returned, the volume snapshot has been
\* fetched exactly once for every distinct named-volume name of the mount
\* list, and for nothing else.
C10_FetchOncePerName ==
    Returned =>
      /\ \A i \in VolumeMountIdx :
           Cardinality(FetchesOf(containerJSON.Mounts[i].Name)) = 1
      /\ \A i \in 1..Len(fetchLog) :
           \E m \in VolumeMountIdx : containerJSON.Mounts[m].Name = fetchLog[i].name

====
